---- MODULE Spec2Model ----
(***************************************************************************)
(* State-machine model of src/main.py: the vulnerability reporter that     *)
(* polls the Kubernetes CVE feed and the Red Hat security data API, posts  *)
(* the two most recent items of each to a Teams webhook, sets the gauge    *)
(* cve_critical_total and saves a time checkpoint, every five minutes.     *)
(*                                                                         *)
(* Time is counted in ticks of one sleep interval (300 s).  Scores are     *)
(* counted in tenths (9.0 is 90).  An identifier is a number: 0 is an      *)
(* absent or empty identifier (falsy in the code), k >= 1 is "CVE-k".      *)
(***************************************************************************)
EXTENDS Integers, Sequences, FiniteSets, TLC

VARIABLES
    pc,                   \* position of the process in the script
    configFile,           \* what config.cfg holds (read once, at import)
    TEAMS_WEBHOOK,        \* module global set by the configuration load
    stateFile,            \* contents of last_run_state.json
    last_check_time,      \* module global: the in-memory watermark
    now,                  \* wall clock, in ticks
    exitCode,             \* argument of exit(), 0 while running
    k8sFeed,              \* items the Kubernetes feed holds upstream
    rhFeed,               \* items the Red Hat API holds upstream
    current_run_time_utc, \* local of main(): clock read at its first line
    k8s_items,            \* kubernetes_items of process_kubernetes_vulnerabilities
    rh_items,             \* items_to_process of process_redhat_vulnerabilities
    k8s_result,           \* (k8s_sent, k8s_critical_found) returned to main
    rh_result,            \* (rh_sent, rh_critical_found) returned to main
    gauge,                \* cve_critical_total, per source label
    cycle,                \* how the cycle in progress, or the last one, went
    posts,                \* log: post_to_teams calls of the current cycle
    postedBefore,         \* log: (source, id) dispatched in earlier cycles
    netCalls,             \* log: kinds of outbound network call attempted
    env                   \* environment: which faults this run can meet

vars == <<pc, configFile, TEAMS_WEBHOOK, stateFile, last_check_time, now,
          exitCode, k8sFeed, rhFeed, current_run_time_utc, k8s_items, rh_items,
          k8s_result, rh_result, gauge, cycle, posts, postedBefore, netCalls,
          env>>

----------------------------------------------------------------------------
(* Bounds of the model *)

MaxFeedLen == 2     \* items an upstream feed holds, in the whole-program runs
MaxBatchLen == 3    \* items of a feed batch, in the selection runs
MaxStamp == 2       \* publish instants 1..MaxStamp
MaxClock == 1       \* ticks after which the wall clock stops advancing

(* Program constants *)

TopK == 2                    \* valid_items_with_dates[:2]
CriticalThreshold == 90      \* score >= 9.0
DefaultTimedeltaHours == 1   \* default_timedelta_hours=1
IntervalSeconds == 300       \* intervalo_segundos = 5 * 60
ExitFailure == 1             \* exit(1)

PLACEHOLDER_WEBHOOK_VALUE == "WEBHOOK_NO_CONFIGURADO"
SOURCE_KUBERNETES == "Kubernetes Official CVE Feed"
SOURCE_REDHAT == "Red Hat (OpenShift)"
Sources == {SOURCE_KUBERNETES, SOURCE_REDHAT}

\* One tick is one sleep interval.
TicksPerHour == (60 * 60) \div IntervalSeconds

Min(a, b) == IF a <= b THEN a ELSE b

----------------------------------------------------------------------------
(* Feed items.  A date field is what the JSON holds under date_published   *)
(* or public_date; an "iso" field carries the instant it parses to (the    *)
(* process runs in UTC, so a string without offset parses to its own       *)
(* instant).  The other fields of an item are well formed.                 *)

BadDateKinds == {"absent", "null", "empty", "zero", "number", "unparseable"}

IsoDate(t) == [kind |-> "iso", t |-> t]
BadDate(k) == [kind |-> k, t |-> 0]

DateFields == {BadDate(k) : k \in BadDateKinds} \cup {IsoDate(t) : t \in 1..MaxStamp}

(* A score field is what the JSON holds under cvss3_score, or what the     *)
(* content_text of a Kubernetes item says after "Score:".                  *)
ScoreFields == {"absent", "garbage", "7.5", "9.0", "9.8"}

\* src/main.py:166-175: what the loop of fetch_kubernetes_vulnerabilities
\* does with one item's date_published.
K8sDateOutcome(d) ==
    CASE d.kind = "absent"      -> "skip"   \* .get default "" is falsy
      [] d.kind = "empty"       -> "skip"   \* "" is falsy
      [] d.kind = "null"        -> "raise"  \* None.rstrip: AttributeError
      [] d.kind = "zero"        -> "raise"  \* (0).rstrip: AttributeError
      [] d.kind = "number"      -> "raise"  \* (5).rstrip: AttributeError
      [] d.kind = "unparseable" -> "skip"   \* fromisoformat: ValueError, caught
      [] d.kind = "iso"         -> "valid"

\* src/main.py:221-230: what the loop of process_redhat_vulnerabilities
\* does with one item's public_date.
RhDateOutcome(d) ==
    CASE d.kind = "absent"      -> "skip"   \* .get gives None, falsy
      [] d.kind = "empty"       -> "skip"
      [] d.kind = "null"        -> "skip"
      [] d.kind = "zero"        -> "skip"   \* 0 is falsy
      [] d.kind = "number"      -> "raise"  \* (5).replace: AttributeError
      [] d.kind = "unparseable" -> "skip"   \* fromisoformat: ValueError, caught
      [] d.kind = "iso"         -> "valid"

\* The date loop of either pipeline, by source.
DateOutcome(src, d) ==
    IF src = SOURCE_KUBERNETES THEN K8sDateOutcome(d) ELSE RhDateOutcome(d)

\* The entries {"item_data": item, "published_date": t} appended for the
\* items of `items` from position i on, in feed order.
RECURSIVE ValidEntries(_, _, _)
ValidEntries(items, i, src) ==
    IF i > Len(items) THEN <<>>
    ELSE IF DateOutcome(src, items[i].date) = "valid"
         THEN <<[item_data |-> items[i], published_date |-> items[i].date.t]>>
              \o ValidEntries(items, i + 1, src)
         ELSE ValidEntries(items, i + 1, src)

\* One insertion of list.sort(key=published_date, reverse=True): the sort is
\* stable, so an entry goes after every entry whose key is >= its own.
RECURSIVE InsertByDateDesc(_, _)
InsertByDateDescUnstable(sorted, e) ==
    IF sorted = <<>> THEN <<e>>
    ELSE IF Head(sorted).published_date > e.published_date
         THEN <<Head(sorted)>> \o InsertByDateDesc(Tail(sorted), e)
         ELSE <<e>> \o sorted
InsertByDateDesc(sorted, e) ==
    IF sorted = <<>> THEN <<e>>
    ELSE IF Head(sorted).published_date >= e.published_date
         THEN <<Head(sorted)>> \o InsertByDateDesc(Tail(sorted), e)
         ELSE <<e>> \o sorted

RECURSIVE SortByDateDesc(_, _)
SortByDateDesc(entries, sorted) ==
    IF entries = <<>> THEN sorted
    ELSE SortByDateDesc(Tail(entries), InsertByDateDesc(sorted, Head(entries)))

\* [entry["item_data"] for entry in valid_items_with_dates[:2]]
FirstItems(entries) ==
    [k \in 1..Min(TopK, Len(entries)) |-> entries[k].item_data]

\* The selection both pipelines share: collect the valid entries, sort,
\* slice.  It raises when the date of some item makes the loop raise.
SelectRecent(items, src) ==
    IF \E i \in 1..Len(items) : DateOutcome(src, items[i].date) = "raise"
    THEN [raised |-> TRUE, items |-> <<>>]
    ELSE [raised |-> FALSE,
          items |-> FirstItems(SortByDateDesc(ValidEntries(items, 1, src), <<>>))]

----------------------------------------------------------------------------
(* Scores and dispatch *)

\* src/main.py:147-152: the score of a Kubernetes item, in tenths; the regex
\* Score:\s*(\d{1,2}\.\d) finds nothing in a text without a score.
K8sScore(field) ==
    CASE field = "7.5" -> 75
      [] field = "9.0" -> 90
      [] field = "9.8" -> 98
      [] OTHER -> 0

\* src/main.py:248-251: float(cvss3_score), 0.0 when absent or not a number.
RhScore(field) ==
    CASE field = "absent" -> 0
      [] field = "garbage" -> 0
      [] field = "7.5" -> 75
      [] field = "9.0" -> 90
      [] field = "9.8" -> 98

ScoreOf(src, field) ==
    IF src = SOURCE_KUBERNETES THEN K8sScore(field) ELSE RhScore(field)

\* src/main.py:202 and 253: if score >= 9.0
IsCritical(score) == score >= CriticalThreshold

\* What the webhook does with one POST.
DispatchOutcomes == {"ok", "unreachable", "timeout", "http_error"}

WebhookConfigured(webhook) ==
    webhook # "" /\ webhook # PLACEHOLDER_WEBHOOK_VALUE

\* src/main.py:130-140: post_to_teams returns a boolean; `net` tells whether
\* requests.post was called.  Every outcome but "ok" is a RequestException.
PostToTeamsRaising(webhook, outcome) ==
    IF ~WebhookConfigured(webhook) THEN [ret |-> FALSE, net |-> FALSE, raised |-> FALSE]
    ELSE [ret |-> outcome = "ok", net |-> TRUE, raised |-> outcome # "ok"]
PostToTeams(webhook, outcome) ==
    IF ~WebhookConfigured(webhook) THEN [ret |-> FALSE, net |-> FALSE, raised |-> FALSE]
    ELSE [ret |-> outcome = "ok", net |-> TRUE, raised |-> FALSE]

\* src/main.py:195-209 and 242-261: the loop over the selected items, from
\* position i on, with the accumulator acc = (count_sent,
\* critical_found_count, calls made).  outs[i] is what the webhook does with
\* the POST for the item at position i.
RECURSIVE ProcessItems(_, _, _, _, _, _)
ProcessItems(items, i, src, webhook, outs, acc) ==
    IF i > Len(items) \/ acc.raised THEN acc
    ELSE IF items[i].id = 0
         THEN ProcessItems(items, i + 1, src, webhook, outs, acc)
         ELSE LET score == ScoreOf(src, items[i].score)
                  r == PostToTeams(webhook, outs[i])
              IN ProcessItems(items, i + 1, src, webhook, outs,
                    [count_sent |-> acc.count_sent + (IF r.ret THEN 1 ELSE 0),
                     critical_found_count |->
                        acc.critical_found_count + (IF IsCritical(score) THEN 1 ELSE 0),
                     calls |-> Append(acc.calls,
                                 [source |-> src, cve_id |-> items[i].id,
                                  ok |-> r.ret, net |-> r.net]),
                     raised |-> r.raised])

NoCalls == [count_sent |-> 0, critical_found_count |-> 0, calls |-> <<>>,
            raised |-> FALSE]

----------------------------------------------------------------------------
(* Feed adapters *)

\* What an upstream answers to one GET.  "wrong_shape" is a body that is JSON
\* but not of the expected top-level type (an array for the Kubernetes feed,
\* an object for the Red Hat API).
FetchResponses == {"ok", "unreachable", "timeout", "http_error", "bad_json", "wrong_shape"}

\* src/main.py:154-185: fetch_kubernetes_vulnerabilities.  A RequestException
\* or a ValueError gives []; data.get on a JSON array is an AttributeError,
\* which the except clause does not name.
FetchK8s(resp, feed) ==
    CASE resp = "ok" -> SelectRecent(feed, SOURCE_KUBERNETES)
      [] resp = "wrong_shape" -> [raised |-> TRUE, items |-> <<>>]
      [] OTHER -> [raised |-> FALSE, items |-> <<>>]

\* src/main.py:102-112: fetch_redhat_vulnerabilities.
FetchRedhat(resp, feed) ==
    CASE resp = "ok" -> feed
      [] OTHER -> <<>>

\* src/main.py:187-209: process_kubernetes_vulnerabilities.
ProcessKubernetes(resp, feed, webhook, outs) ==
    LET f == FetchK8s(resp, feed)
        r == ProcessItems(f.items, 1, SOURCE_KUBERNETES, webhook, outs, NoCalls)
    IN [raised |-> f.raised \/ r.raised, items |-> f.items,
        count_sent |-> r.count_sent,
        critical_found_count |-> r.critical_found_count, calls |-> r.calls]

\* src/main.py:211-261: process_redhat_vulnerabilities.
ProcessRedhat(resp, feed, webhook, outs) ==
    LET f == SelectRecent(FetchRedhat(resp, feed), SOURCE_REDHAT)
        r == ProcessItems(f.items, 1, SOURCE_REDHAT, webhook, outs, NoCalls)
    IN [raised |-> f.raised \/ r.raised, items |-> f.items,
        count_sent |-> r.count_sent,
        critical_found_count |-> r.critical_found_count, calls |-> r.calls]

----------------------------------------------------------------------------
(* Configuration and the checkpoint file *)

ConfigKinds == {"no_file", "parse_error", "no_section", "no_key", "empty",
                "placeholder", "url"}

\* src/main.py:15-41: the webhook the module-level load leaves in
\* TEAMS_WEBHOOK.  configparser strips values, so a blank value is "".
LoadedWebhook(kind) ==
    CASE kind = "url" -> "https://teams.example/webhook"
      [] OTHER -> PLACEHOLDER_WEBHOOK_VALUE

\* time_to_save_utc.isoformat() + "Z"
IsoFormat(t) == [naive |-> t, suffix |-> "Z"]

\* datetime.fromisoformat(s.replace('Z', '+00:00')).astimezone(utc)
\*   .replace(tzinfo=None): the suffix becomes an offset of zero.
UtcOffset(suffix) == CASE suffix = "Z" -> 0 [] suffix = "+00:00" -> 0
FromIsoFormat(s) == s.naive - UtcOffset(s.suffix)

StateFiles == {[kind |-> "missing"], [kind |-> "corrupt"]}

SavedFile(t) == [kind |-> "ok", last_check_time_utc_iso |-> IsoFormat(t)]

\* src/main.py:67-79: load_last_run_state.
LoadLastRunState(file, clock) ==
    IF file.kind = "ok" THEN FromIsoFormat(file.last_check_time_utc_iso)
    ELSE clock - DefaultTimedeltaHours * TicksPerHour

\* src/main.py:81-88: save_last_run_state never raises.  open() may fail,
\* which leaves the file as it was; a failed write leaves it truncated.
SaveOutcomes == {"ok", "open_fails", "write_fails"}

SaveLastRunState(file, t, outcome) ==
    CASE outcome = "ok" -> SavedFile(t)
      [] outcome = "open_fails" -> file
      [] outcome = "write_fails" -> [kind |-> "corrupt"]

----------------------------------------------------------------------------
(* The whole program: import, startup, and the loop of cycles *)

\* last_check_time = None (src/main.py:54) and locals not yet assigned.
None == 0 - 1000

\* The process starts after the newest upstream item was published.
StartClock == MaxStamp + 1
EndClock == StartClock + MaxClock

\* Items of the whole-program runs: valid dates; an item has an identifier
\* or not, and is critical or has no score.  (An item with neither is
\* skipped by the loop and counts nowhere.)
FeedItems ==
    {it \in [id : {0, 1}, date : {IsoDate(MaxStamp)}, score : {"absent", "9.0"}] :
        it.id # 0 \/ it.score = "9.0"}

RECURSIVE SeqsUpTo(_, _)
SeqsUpTo(S, n) ==
    IF n = 0 THEN {<<>>}
    ELSE LET shorter == SeqsUpTo(S, n - 1)
         IN shorter \cup {Append(q, x) : q \in {r \in shorter : Len(r) = n - 1}, x \in S}

Feeds == SeqsUpTo(FeedItems, MaxFeedLen)

\* A feed of no item, of one critical item, and of one item whose date field
\* is a number.
ShortFeeds == {<<>>,
               <<[id |-> 1, date |-> IsoDate(MaxStamp), score |-> "9.0"]>>,
               <<[id |-> 1, date |-> BadDate("number"), score |-> "9.0"]>>}

\* The environments explored.  In a calm one the disk takes every write and
\* the network answers within the tick; feeds and webhook may still fail.
Calm == [diskFaults |-> FALSE, slowNetwork |-> FALSE]
Rough == [diskFaults |-> TRUE, slowNetwork |-> TRUE]

NoResult == [sent |-> 0, critical |-> 0]
\* The log of a cycle: how it ended, the pipeline that raised, the sources
\* whose GET answered with the feed and those whose GET failed, and the same
\* of the cycle before.
NoPrev == [status |-> "none", fetched |-> {}]
NoCycle == [status |-> "none", raisedIn |-> "none", fetched |-> {}, failed |-> {},
            prev |-> NoPrev]

InitProgram ==
    /\ pc = "import"
    /\ configFile \in ConfigKinds
    /\ TEAMS_WEBHOOK = PLACEHOLDER_WEBHOOK_VALUE
    /\ last_check_time = None
    /\ now = StartClock
    /\ exitCode = 0
    /\ current_run_time_utc = None
    /\ k8s_items = <<>>
    /\ rh_items = <<>>
    /\ k8s_result = NoResult
    /\ rh_result = NoResult
    /\ gauge = <<>>
    /\ cycle = NoCycle
    /\ posts = <<>>
    /\ postedBefore = {}
    /\ netCalls = {}

\* Long feeds in a calm environment (one of the two feeds at a time).
InitCalm ==
    /\ InitProgram
    /\ env = Calm
    /\ stateFile = [kind |-> "missing"]
    /\ \/ k8sFeed \in Feeds /\ rhFeed \in ShortFeeds
       \/ k8sFeed \in ShortFeeds /\ rhFeed \in Feeds

\* Short feeds in a rough environment, over any checkpoint file.
InitRough ==
    /\ InitProgram
    /\ env = Rough
    /\ stateFile \in StateFiles \cup {SavedFile(StartClock - 1)}
    /\ k8sFeed \in ShortFeeds
    /\ rhFeed \in ShortFeeds

Init == InitCalm \/ InitRough

\* src/main.py:15-41
LoadConfig ==
    /\ pc = "import"
    /\ TEAMS_WEBHOOK' = LoadedWebhook(configFile)
    /\ pc' = "load_state"
    /\ UNCHANGED <<configFile, stateFile, last_check_time, now, exitCode, k8sFeed,
                   rhFeed, current_run_time_utc, k8s_items, rh_items, k8s_result,
                   rh_result, gauge, cycle, posts, postedBefore, netCalls, env>>

\* src/main.py:281
LoadState ==
    /\ pc = "load_state"
    /\ last_check_time' = LoadLastRunState(stateFile, now)
    /\ pc' = "start_metrics"
    /\ UNCHANGED <<configFile, TEAMS_WEBHOOK, stateFile, now, exitCode, k8sFeed,
                   rhFeed, current_run_time_utc, k8s_items, rh_items, k8s_result,
                   rh_result, gauge, cycle, posts, postedBefore, netCalls, env>>

\* src/main.py:284-289: the port may be taken.
StartMetricsServer ==
    /\ pc = "start_metrics"
    /\ \E bound \in BOOLEAN :
         IF bound THEN pc' = "check_webhook" /\ exitCode' = exitCode
         ELSE pc' = "exited_no_port" /\ exitCode' = ExitFailure
    /\ UNCHANGED <<configFile, TEAMS_WEBHOOK, stateFile, last_check_time, now,
                   k8sFeed, rhFeed, current_run_time_utc, k8s_items, rh_items,
                   k8s_result, rh_result, gauge, cycle, posts, postedBefore,
                   netCalls, env>>

\* src/main.py:292: if not TEAMS_WEBHOOK or TEAMS_WEBHOOK == PLACEHOLDER
StartupAccepts(webhook) == FALSE
StartupRefuses(webhook) == ~WebhookConfigured(webhook)

\* src/main.py:292-295
CheckWebhook ==
    /\ pc = "check_webhook"
    /\ IF StartupRefuses(TEAMS_WEBHOOK)
       THEN pc' = "exited_no_webhook" /\ exitCode' = ExitFailure
       ELSE pc' = "loop" /\ exitCode' = exitCode
    /\ UNCHANGED <<configFile, TEAMS_WEBHOOK, stateFile, last_check_time, now,
                   k8sFeed, rhFeed, current_run_time_utc, k8s_items, rh_items,
                   k8s_result, rh_result, gauge, cycle, posts, postedBefore,
                   netCalls, env>>

\* src/main.py:300-304 and 263-266: the loop enters main(), which reads the
\* clock.
CycleBegin ==
    /\ pc = "loop"
    /\ current_run_time_utc' = now
    /\ cycle' = [cycle EXCEPT !.status = "running"]
    /\ pc' = "k8s"
    /\ UNCHANGED <<configFile, TEAMS_WEBHOOK, stateFile, last_check_time, now,
                   exitCode, k8sFeed, rhFeed, k8s_items, rh_items, k8s_result,
                   rh_result, gauge, posts, postedBefore, netCalls, env>>

\* src/main.py:306-307: except Exception in the loop; the loop goes on to
\* time.sleep.
AfterExceptionCrash == "exited_uncaught"
AfterException == "sleep"

Posted(calls) == IF \E k \in 1..Len(calls) : calls[k].net THEN {"teams_post"} ELSE {}

\* The clock after something that takes dt ticks.
Later(dt) == Min(now + dt, EndClock)

\* Ticks a network exchange may take.
Latencies == IF env.slowNetwork THEN {0, 1} ELSE {0}

\* src/main.py:268: k8s_sent, k8s_critical_found = process_kubernetes_vulnerabilities()
ProcessK8s ==
    /\ pc = "k8s"
    /\ \E resp \in FetchResponses, dt \in Latencies :
       \E outs \in [1..Len(FetchK8s(resp, k8sFeed).items) -> DispatchOutcomes] :
         LET r == ProcessKubernetes(resp, k8sFeed, TEAMS_WEBHOOK, outs)
         IN /\ k8s_items' = r.items
            /\ posts' = posts \o r.calls
            /\ netCalls' = netCalls \cup {"k8s_get"} \cup Posted(r.calls)
            /\ now' = Later(dt)
            /\ IF r.raised
               THEN /\ pc' = AfterException
                    /\ cycle' = [cycle EXCEPT !.status = "raised", !.raisedIn = "k8s",
                                   !.failed = IF resp = "ok" THEN @
                                              ELSE @ \cup {SOURCE_KUBERNETES}]
                    /\ k8s_result' = k8s_result
               ELSE /\ pc' = "rh"
                    /\ cycle' = [cycle EXCEPT
                                   !.fetched = IF resp = "ok" THEN @ \cup {SOURCE_KUBERNETES}
                                               ELSE @,
                                   !.failed = IF resp = "ok" THEN @
                                              ELSE @ \cup {SOURCE_KUBERNETES}]
                    /\ k8s_result' = [sent |-> r.count_sent,
                                      critical |-> r.critical_found_count]
    /\ UNCHANGED <<configFile, TEAMS_WEBHOOK, stateFile, last_check_time, exitCode,
                   k8sFeed, rhFeed, current_run_time_utc, rh_items, rh_result,
                   gauge, postedBefore, env>>

\* src/main.py:269: rh_sent, rh_critical_found = process_redhat_vulnerabilities()
ProcessRH ==
    /\ pc = "rh"
    /\ \E resp \in FetchResponses, dt \in Latencies :
       \E outs \in [1..Len(SelectRecent(FetchRedhat(resp, rhFeed), SOURCE_REDHAT).items)
                      -> DispatchOutcomes] :
         LET r == ProcessRedhat(resp, rhFeed, TEAMS_WEBHOOK, outs)
         IN /\ rh_items' = r.items
            /\ posts' = posts \o r.calls
            /\ netCalls' = netCalls \cup {"rh_get"} \cup Posted(r.calls)
            /\ now' = Later(dt)
            /\ IF r.raised
               THEN /\ pc' = AfterException
                    /\ cycle' = [cycle EXCEPT !.status = "raised", !.raisedIn = "rh",
                                   !.failed = IF resp = "ok" THEN @
                                              ELSE @ \cup {SOURCE_REDHAT}]
                    /\ rh_result' = rh_result
               ELSE /\ pc' = "finish"
                    /\ cycle' = [cycle EXCEPT
                                   !.fetched = IF resp = "ok" THEN @ \cup {SOURCE_REDHAT}
                                               ELSE @,
                                   !.failed = IF resp = "ok" THEN @
                                              ELSE @ \cup {SOURCE_REDHAT}]
                    /\ rh_result' = [sent |-> r.count_sent,
                                     critical |-> r.critical_found_count]
    /\ UNCHANGED <<configFile, TEAMS_WEBHOOK, stateFile, last_check_time, exitCode,
                   k8sFeed, rhFeed, current_run_time_utc, k8s_items, k8s_result,
                   gauge, postedBefore, env>>

\* src/main.py:271-272: Gauge.set overwrites the sample.
SetGaugeAdding(g, src, n) ==
    [s \in DOMAIN g \cup {src} |->
        IF s = src THEN (IF src \in DOMAIN g THEN g[src] + n ELSE n) ELSE g[s]]
SetGauge(g, src, n) ==
    [s \in DOMAIN g \cup {src} |-> IF s = src THEN n ELSE g[s]]

\* src/main.py:277: last_check_time = current_run_time_utc
NewWatermarkAtEnd(began, clock) == clock
NewWatermark(began, clock) == began

\* What the disk may do with one save.
DiskOutcomes == IF env.diskFaults THEN SaveOutcomes ELSE {"ok"}

\* src/main.py:271-277: the rest of main().
FinishCycle ==
    /\ pc = "finish"
    /\ gauge' = SetGauge(SetGauge(gauge, SOURCE_KUBERNETES, k8s_result.critical),
                         SOURCE_REDHAT, rh_result.critical)
    /\ \E outcome \in DiskOutcomes :
         stateFile' = SaveLastRunState(stateFile, current_run_time_utc, outcome)
    /\ last_check_time' = NewWatermark(current_run_time_utc, now)
    /\ cycle' = [cycle EXCEPT !.status = "completed"]
    /\ pc' = "sleep"
    /\ UNCHANGED <<configFile, TEAMS_WEBHOOK, now, exitCode, k8sFeed, rhFeed,
                   current_run_time_utc, k8s_items, rh_items, k8s_result, rh_result,
                   posts, postedBefore, netCalls, env>>

\* src/main.py:308: time.sleep(intervalo_segundos), then the loop again.  The
\* locals of main() are gone; the logs take over what the cycle did.
Sleep ==
    /\ pc = "sleep"
    /\ now' = Later(1)
    /\ pc' = "loop"
    /\ postedBefore' = postedBefore \cup
                         {<<posts[k].source, posts[k].cve_id>> : k \in 1..Len(posts)}
    /\ posts' = <<>>
    /\ cycle' = [status |-> "none", raisedIn |-> "none", fetched |-> {},
                 failed |-> {},
                 prev |-> [status |-> cycle.status, fetched |-> cycle.fetched]]
    /\ current_run_time_utc' = None
    /\ k8s_items' = <<>>
    /\ rh_items' = <<>>
    /\ k8s_result' = NoResult
    /\ rh_result' = NoResult
    /\ UNCHANGED <<configFile, TEAMS_WEBHOOK, stateFile, last_check_time, exitCode,
                   k8sFeed, rhFeed, gauge, netCalls, env>>

Next ==
    \/ LoadConfig
    \/ LoadState
    \/ StartMetricsServer
    \/ CheckWebhook
    \/ CycleBegin
    \/ ProcessK8s
    \/ ProcessRH
    \/ FinishCycle
    \/ Sleep

Spec == Init /\ [][Next]_vars

\* The process is never descheduled for good: time.sleep returns and every
\* network call is bounded by its timeout.
LiveInit == InitRough /\ stateFile.kind = "missing"

LiveSpec == LiveInit /\ [][Next]_vars /\ WF_vars(Next)

----------------------------------------------------------------------------
(* The selection and the pipelines on their own, over feed batches whose   *)
(* items have any date field.  The item at position i is "CVE-i".          *)

BatchOf(dates) ==
    [i \in 1..Len(dates) |-> [id |-> i, date |-> dates[i], score |-> "9.0"]]

Batches == {BatchOf(d) : d \in SeqsUpTo(DateFields, MaxBatchLen)}

AllDelivered == [k \in 1..TopK |-> "ok"]

SelInit ==
    /\ InitProgram
    /\ env = Calm
    /\ stateFile = [kind |-> "missing"]
    /\ configFile = "url"
    /\ k8sFeed \in Batches
    /\ rhFeed = k8sFeed

\* process_kubernetes_vulnerabilities() on the batch, the webhook answering.
RunKubernetes ==
    /\ pc = "import"
    /\ LET r == ProcessKubernetes("ok", k8sFeed, LoadedWebhook("url"), AllDelivered)
       IN /\ k8s_items' = r.items
          /\ posts' = r.calls
          /\ k8s_result' = [sent |-> r.count_sent, critical |-> r.critical_found_count]
          /\ cycle' = [cycle EXCEPT !.status = IF r.raised THEN "raised" ELSE "completed",
                                    !.raisedIn = IF r.raised THEN "k8s" ELSE "none"]
    /\ pc' = "ran_k8s"
    /\ UNCHANGED <<configFile, TEAMS_WEBHOOK, stateFile, last_check_time, now,
                   exitCode, k8sFeed, rhFeed, current_run_time_utc, rh_items,
                   rh_result, gauge, postedBefore, netCalls, env>>

\* process_redhat_vulnerabilities() on the batch, the webhook answering.
RunRedhat ==
    /\ pc = "import"
    /\ LET r == ProcessRedhat("ok", rhFeed, LoadedWebhook("url"), AllDelivered)
       IN /\ rh_items' = r.items
          /\ posts' = r.calls
          /\ rh_result' = [sent |-> r.count_sent, critical |-> r.critical_found_count]
          /\ cycle' = [cycle EXCEPT !.status = IF r.raised THEN "raised" ELSE "completed",
                                    !.raisedIn = IF r.raised THEN "rh" ELSE "none"]
    /\ pc' = "ran_rh"
    /\ UNCHANGED <<configFile, TEAMS_WEBHOOK, stateFile, last_check_time, now,
                   exitCode, k8sFeed, rhFeed, current_run_time_utc, k8s_items,
                   k8s_result, gauge, postedBefore, netCalls, env>>

SelNext == RunKubernetes \/ RunRedhat

SelSpec == SelInit /\ [][SelNext]_vars

----------------------------------------------------------------------------
(* What the claims speak of *)

LoopPcs == {"loop", "k8s", "rh", "finish", "sleep"}
StartupPcs == {"import", "load_state", "start_metrics", "check_webhook"}
ExitPcs == {"exited_no_port", "exited_no_webhook"}

CallsOf(src) == SelectSeq(posts, LAMBDA c : c.source = src)
Delivered(calls) == Cardinality({k \in 1..Len(calls) : calls[k].ok})
Identified(items) == SelectSeq(items, LAMBDA it : it.id # 0)
IdsOf(items) == [k \in 1..Len(items) |-> items[k].id]
CallIds(calls) == [k \in 1..Len(calls) |-> calls[k].cve_id]

\* Positions of the candidates whose score is 9.0 or more.
CriticalAt(items, src) ==
    {k \in 1..Len(items) : ScoreOf(src, items[k].score) >= 90}

\* The publish instants of the items a feed holds.
Stamps(feed) == {feed[i].date.t : i \in {j \in 1..Len(feed) : feed[j].date.kind = "iso"}}

\* The pipeline of a source has run to its end in the cycle in progress.
DoneK8s == pc \in {"rh", "finish"} \/ (pc = "sleep" /\ cycle.raisedIn # "k8s")
DoneRH == pc = "finish" \/ (pc = "sleep" /\ cycle.status = "completed")
Completed == pc = "sleep" /\ cycle.status = "completed"

\* C1: an identifier dispatched in an earlier cycle is never dispatched again
\* in a later one: no call of the current cycle is for a (source, identifier)
\* that an earlier cycle already called post_to_teams for.
C1_NoIdentifierDispatchedTwice ==
    \A k \in 1..Len(posts) : <<posts[k].source, posts[k].cve_id>> \notin postedBefore

\* C2: watermark idempotence.  When the cycle before completed with both
\* feeds fetched, and this cycle fetched both feeds again (the upstreams hold
\* the same items) with nothing published at or after the watermark the first
\* cycle left, this cycle calls post_to_teams not once and both sent-counts
\* are 0.
C2_SecondCycleDispatchesNothing ==
    (/\ pc = "finish"
     /\ cycle.prev.status = "completed"
     /\ cycle.prev.fetched = Sources
     /\ cycle.fetched = Sources
     /\ \A t \in Stamps(k8sFeed) \cup Stamps(rhFeed) : t < last_check_time)
    => (posts = <<>> /\ k8s_result.sent = 0 /\ rh_result.sent = 0)

\* The positions of a batch that hold a valid publish timestamp, and the
\* order of recency among them: later instant first, feed order among equals.
Dated(batch) == {i \in 1..Len(batch) : batch[i].date.kind = "iso"}
MoreRecent(batch, i, j) ==
    \/ batch[i].date.t > batch[j].date.t
    \/ (batch[i].date.t = batch[j].date.t /\ i < j)
Rank(batch, i) == 1 + Cardinality({j \in Dated(batch) : MoreRecent(batch, j, i)})
TwoMostRecent(batch) ==
    [k \in 1..Min(2, Cardinality(Dated(batch))) |->
        batch[CHOOSE i \in Dated(batch) : Rank(batch, i) = k]]

\* C3: bounded-recency selection.  The candidates of a source are exactly the
\* (at most) 2 items with the greatest valid publish timestamps, in
\* descending order, and among equal timestamps in feed order.
C3_CandidatesAreTwoMostRecent ==
    /\ (pc = "ran_k8s" /\ cycle.status # "raised") => k8s_items = TwoMostRecent(k8sFeed)
    /\ (pc = "ran_rh" /\ cycle.status # "raised") => rh_items = TwoMostRecent(rhFeed)

\* C3 witness: three dated items, the oldest first and the two others tied;
\* the two tied ones were selected in feed order.
C3_Witness ==
    /\ pc = "ran_k8s"
    /\ Len(k8sFeed) >= 3
    /\ Dated(k8sFeed) = 1..Len(k8sFeed)
    /\ k8sFeed[1].date.t < k8sFeed[2].date.t
    /\ k8sFeed[2].date.t = k8sFeed[3].date.t
    /\ \A i \in 1..Len(k8sFeed) : k8sFeed[i].date.t <= k8sFeed[2].date.t
    /\ k8s_items = <<k8sFeed[2], k8sFeed[3]>>

DatedOnly(batch) == SelectSeq(batch, LAMBDA it : it.date.kind = "iso")

\* C4: an item whose publish date is absent, null, not a string or not
\* parseable is left out without raising, and what the pipeline selects and
\* dispatches is what it would select and dispatch were the item not in the
\* feed; for the Kubernetes and for the Red Hat pipeline.
C4_BadDatesAreSkipped ==
    /\ pc = "ran_k8s" =>
         /\ cycle.status # "raised"
         /\ k8s_items = TwoMostRecent(DatedOnly(k8sFeed))
         /\ CallIds(posts) = IdsOf(TwoMostRecent(DatedOnly(k8sFeed)))
    /\ pc = "ran_rh" =>
         /\ cycle.status # "raised"
         /\ rh_items = TwoMostRecent(DatedOnly(rhFeed))
         /\ CallIds(posts) = IdsOf(TwoMostRecent(DatedOnly(rhFeed)))

\* C5 as claimed: after a completed cycle the gauge of each source is the
\* number of that cycle's candidates with score >= 9.0.
C5_GaugeCountsCriticalCandidates ==
    Completed =>
        /\ DOMAIN gauge = Sources
        /\ gauge[SOURCE_KUBERNETES] = Cardinality(CriticalAt(k8s_items, SOURCE_KUBERNETES))
        /\ gauge[SOURCE_REDHAT] = Cardinality(CriticalAt(rh_items, SOURCE_REDHAT))

\* C5 amended: after a completed cycle the gauge of each source is the number
\* of that cycle's candidates that carry an identifier and have score >= 9.0,
\* whatever the dispatches returned and whatever the gauge held before.
C5_GaugeCountsIdentifiedCriticalCandidates ==
    Completed =>
        /\ DOMAIN gauge = Sources
        /\ gauge[SOURCE_KUBERNETES] =
             Cardinality(CriticalAt(Identified(k8s_items), SOURCE_KUBERNETES))
        /\ gauge[SOURCE_REDHAT] =
             Cardinality(CriticalAt(Identified(rh_items), SOURCE_REDHAT))

\* C5 witness: a second completed cycle in a row over a feed with a critical
\* item, whose dispatch failed: the gauge is 1 again, not 2, and 0 for the
\* source whose fetch failed this time.
C5_Witness ==
    /\ Completed
    /\ cycle.prev.status = "completed"
    /\ cycle.prev.fetched = Sources
    /\ cycle.fetched = {SOURCE_KUBERNETES}
    /\ Len(rhFeed) = 1
    /\ gauge[SOURCE_KUBERNETES] = 1
    /\ gauge[SOURCE_REDHAT] = 0
    /\ \E k \in 1..Len(posts) : ~posts[k].ok

\* Once in the loop, the process stays in it.
StaysInLoop == pc \in LoopPcs => pc' \in LoopPcs

\* C6: an exception raised inside a cycle never ends the process, and every
\* cycle, failed or not, is followed by another one.
C6_LoopSurvivesExceptions ==
    /\ [][StaysInLoop]_vars
    /\ (pc = "sleep") ~> (pc = "k8s")

\* C6 witness: a cycle has begun after one that raised.
C6_Witness ==
    pc = "k8s" /\ cycle.prev.status = "raised"

\* C7: a failed fetch of one feed gives no items for that source and does not
\* raise: the cycle completes, with both gauges set and the watermark
\* advanced.
C7_FetchFailureStaysLocal ==
    /\ cycle.raisedIn = "k8s" => SOURCE_KUBERNETES \notin cycle.failed
    /\ cycle.raisedIn = "rh" => SOURCE_REDHAT \notin cycle.failed
    /\ (pc = "sleep" /\ cycle.failed # {}) =>
         /\ cycle.status = "completed"
         /\ SOURCE_KUBERNETES \in cycle.failed => k8s_items = <<>>
         /\ SOURCE_REDHAT \in cycle.failed => rh_items = <<>>
         /\ DOMAIN gauge = Sources
         /\ last_check_time = current_run_time_utc

\* C8 as claimed: a dispatch failure is the value False and never an
\* exception, and every candidate of the source is dispatched, whatever the
\* earlier dispatches returned; the sent-count is the number of calls that
\* returned True.
C8_EveryCandidateDispatched ==
    /\ cycle.raisedIn = "k8s" => CallsOf(SOURCE_KUBERNETES) = <<>>
    /\ cycle.raisedIn = "rh" => CallsOf(SOURCE_REDHAT) = <<>>
    /\ DoneK8s =>
         /\ CallIds(CallsOf(SOURCE_KUBERNETES)) = IdsOf(k8s_items)
         /\ k8s_result.sent = Delivered(CallsOf(SOURCE_KUBERNETES))
    /\ DoneRH =>
         /\ CallIds(CallsOf(SOURCE_REDHAT)) = IdsOf(rh_items)
         /\ rh_result.sent = Delivered(CallsOf(SOURCE_REDHAT))

\* C8 amended: a dispatch failure is the value False and never an exception,
\* and every candidate of the source that carries an identifier is
\* dispatched, in order, whatever the earlier dispatches returned; the
\* sent-count is the number of calls that returned True.
C8_EveryIdentifiedCandidateDispatched ==
    /\ cycle.raisedIn = "k8s" => CallsOf(SOURCE_KUBERNETES) = <<>>
    /\ cycle.raisedIn = "rh" => CallsOf(SOURCE_REDHAT) = <<>>
    /\ DoneK8s =>
         /\ CallIds(CallsOf(SOURCE_KUBERNETES)) = IdsOf(Identified(k8s_items))
         /\ k8s_result.sent = Delivered(CallsOf(SOURCE_KUBERNETES))
    /\ DoneRH =>
         /\ CallIds(CallsOf(SOURCE_REDHAT)) = IdsOf(Identified(rh_items))
         /\ rh_result.sent = Delivered(CallsOf(SOURCE_REDHAT))

\* C8 witness: two Kubernetes candidates, the dispatch of the first failed,
\* the second was still dispatched and delivered.
C8_Witness ==
    /\ pc = "rh"
    /\ Len(k8s_items) = 2
    /\ Len(posts) = 2
    /\ ~posts[1].ok
    /\ posts[2].ok
    /\ k8s_result.sent = 1

\* What every step of the loop does to the watermark and to the checkpoint,
\* but for the step that ends a cycle: nothing.  main() reads the clock as it
\* begins and keeps what it read.
WatermarkFrame ==
    /\ pc \in {"loop", "k8s", "rh", "sleep"} =>
         (last_check_time' = last_check_time /\ stateFile' = stateFile)
    /\ pc = "loop" => current_run_time_utc' = now
    /\ pc \in {"k8s", "rh", "finish"} => current_run_time_utc' = current_run_time_utc

\* The end of a cycle as claimed: watermark and checkpoint are the time read
\* when the cycle began.
BothAdvance ==
    pc = "finish" =>
        /\ last_check_time' = current_run_time_utc
        /\ stateFile' = SavedFile(current_run_time_utc)

\* The end of a cycle, the save being allowed to fail.
WatermarkAdvances ==
    pc = "finish" =>
        /\ last_check_time' = current_run_time_utc
        /\ \/ /\ stateFile'.kind = "ok"
              /\ FromIsoFormat(stateFile'.last_check_time_utc_iso) = current_run_time_utc
           \/ stateFile' = stateFile
           \/ stateFile'.kind = "corrupt"

\* C9 as claimed: the watermark changes only at the end of a successful
\* cycle, and then the in-memory watermark and the persisted checkpoint both
\* equal the time read when the cycle began.
C9_WatermarkAndCheckpointAdvance ==
    [][WatermarkFrame /\ BothAdvance]_vars

\* C9 amended: the watermark changes only at the end of a successful cycle,
\* and then the in-memory watermark equals the time read when the cycle
\* began; the persisted checkpoint equals it too unless the save failed,
\* which leaves the file as it was or unreadable.
C9_WatermarkAdvancesCheckpointIfSaved ==
    [][WatermarkFrame /\ WatermarkAdvances]_vars

\* C9 witness: a cycle that took a tick has completed and saved: watermark
\* and checkpoint hold the time it began, not the time it ended.
C9_Witness ==
    /\ Completed
    /\ now > current_run_time_utc
    /\ last_check_time = current_run_time_utc
    /\ stateFile = SavedFile(current_run_time_utc)
    /\ cycle.prev.status = "none"

\* C10: with the webhook missing, empty or the placeholder, startup exits
\* nonzero before the first cycle: the loop is never entered, no feed is
\* fetched and nothing is posted.
C10_NoWebhookNoCycle ==
    configFile # "url" =>
        /\ pc \in StartupPcs \cup ExitPcs
        /\ pc \in ExitPcs => exitCode # 0
        /\ netCalls = {}
        /\ posts = <<>>
        /\ cycle.status = "none"

\* C10 witness: the value of webhook_url is empty, and startup has exited at
\* the webhook check.
C10_Witness ==
    /\ configFile = "empty"
    /\ pc = "exited_no_webhook"
    /\ exitCode = ExitFailure

====
